---- MODULE Spec2Model ----
(***************************************************************************)
(* Model of src/main.py: three in-memory repositories (users, projects,    *)
(* tasks) behind the HTTP handlers of the TODO API.                        *)
(*                                                                         *)
(* UUIDs are modelled as integers.  uuid4() returns a value that was never *)
(* generated before: the n-th user gets UserBase + n, the n-th project     *)
(* ProjectBase + n (neither collection ever shrinks, so n is its length    *)
(* plus one) and the n-th created task gets n (nextId).  ForeignId is a    *)
(* UUID that none of these calls returned, one a client made up.  Optional *)
(* values are sequences of length 0 (None) or 1.  A handler that returns   *)
(* None where a response_model is declared answers null with 200 or fails  *)
(* response validation with 500, depending on the framework version.       *)
(*                                                                         *)
(* Spec     : one request is handled at a time (every handler is atomic).  *)
(* ConcSpec : two task requests handled by two threads of the worker pool; *)
(*            the repository's scan for the matching index and the         *)
(*            following list mutation are separate steps.                  *)
(***************************************************************************)
EXTENDS Integers, Sequences, FiniteSets, TLC

\* ---- bounds ----
MaxId == 5            \* records created (uuid4 calls of the three inserts)
ConcTasks == 3        \* tasks stored when the two concurrent requests start

\* ---- input domains ----
ForeignId == 0
UserBase == 100
ProjectBase == 200
NoId == -1            \* an absent Optional[UUID] query parameter (None)
NoneDesc == "None"    \* description: Optional[str] = None
Contents ==
    { [title |-> "A", description |-> NoneDesc, completed |-> FALSE],
      [title |-> "B", description |-> "d", completed |-> TRUE] }
Names == {"n"}
Workers == {1, 2}
NoneResponseStatus == {200, 500}

VARIABLES users, projects, tasks, nextId, req, resp, wpc, widx, wreq, wresp

vars == <<users, projects, tasks, nextId, req, resp, wpc, widx, wreq, wresp>>
repos == <<users, projects, tasks>>
wvars == <<wpc, widx, wreq, wresp>>

\* ids a client sends: those of the stored records, plus one that is not stored
ids(rs) == {rs[i].id : i \in 1 .. Len(rs)}

UserIds == ids(users) \cup {ForeignId}

ProjectIds == ids(projects) \cup {ForeignId}

TaskIds == ids(tasks) \cup {ForeignId}

\* uuid4 calls so far: users and projects are never removed, tasks are
Created == Len(users) + Len(projects) + (nextId - 1)

\* ---- records (class Task, Project, User) ----
Task(id, data) ==
    [id |-> id, title |-> data.title, description |-> data.description,
     completed |-> data.completed, project_id |-> data.project_id]

Project(id, data) == [id |-> id, name |-> data.name, user_id |-> data.user_id]

User(id, data) == [id |-> id, name |-> data.name]

TaskCreate(pids) ==
    { [title |-> c.title, description |-> c.description,
       completed |-> c.completed, project_id |-> p] : c \in Contents, p \in pids }

\* ---- repositories ----
\* index of the first record whose id matches, 0 when the scan falls off the end
RECURSIVE scan(_, _, _)
scan(ts, id, i) ==
    IF i > Len(ts) THEN 0
    ELSE IF ts[i].id = id THEN i
    ELSE scan(ts, id, i + 1)

find_by_id(ts, task_id) ==
    LET i == scan(ts, task_id, 1) IN IF i = 0 THEN <<>> ELSE <<ts[i]>>

\* each insert returns the stored record together with the new collection
add_task_drop(ts, task_data, id) ==
    LET new_task == Task(id, [task_data EXCEPT !.completed = FALSE])
    IN [new_task |-> new_task, tasks |-> Append(ts, new_task)]

add_task(ts, task_data, id) ==
    LET new_task == Task(id, task_data)
    IN [new_task |-> new_task, tasks |-> Append(ts, new_task)]

modify_task(ts, task_id, updated_task) ==
    LET i == scan(ts, task_id, 1) IN
    IF i = 0 THEN [found |-> FALSE, tasks |-> ts]
    ELSE [found |-> TRUE, tasks |-> [ts EXCEPT ![i] = updated_task]]

del(ts, i) == SubSeq(ts, 1, i - 1) \o SubSeq(ts, i + 1, Len(ts))

remove_task(ts, task_id) ==
    LET i == scan(ts, task_id, 1) IN
    IF i = 0 THEN [found |-> FALSE, tasks |-> ts]
    ELSE [found |-> TRUE, tasks |-> del(ts, i)]

create_project(ps, project_data, id) ==
    LET project == Project(id, project_data)
    IN [project |-> project, projects |-> Append(ps, project)]

repo_add_user(us, user_data, id) ==
    LET user == User(id, user_data)
    IN [user |-> user, users |-> Append(us, user)]

\* any(p.id == x for p in repo.list())
any_id_always(rs, x) == TRUE

any_id_nonempty(rs, x) == Len(rs) > 0

any_id(rs, x) == \E i \in 1 .. Len(rs) : rs[i].id = x

project_exists_always(pid) == any_id_always(projects, pid)

project_exists(pid) == any_id(projects, pid)

user_exists_any(uid) == any_id_nonempty(users, uid)

user_exists(uid) == any_id(users, uid)

\* [t for t in tasks if t.project_id == project_id]
RECURSIVE tasks_filtered_from(_, _, _)
tasks_filtered_from(ts, project_id, i) ==
    IF i > Len(ts) THEN <<>>
    ELSE IF ts[i].project_id = project_id
         THEN <<ts[i]>> \o tasks_filtered_from(ts, project_id, i + 1)
         ELSE tasks_filtered_from(ts, project_id, i + 1)

tasks_filtered_rev(ts, project_id) ==
    LET f == tasks_filtered_from(ts, project_id, 1)
    IN [k \in 1 .. Len(f) |-> f[Len(f) + 1 - k]]

tasks_filtered(ts, project_id) == tasks_filtered_from(ts, project_id, 1)

\* [p for p in projects if p.user_id == user_id]
RECURSIVE filtered_projects_from(_, _, _)
filtered_projects_from(ps, user_id, i) ==
    IF i > Len(ps) THEN <<>>
    ELSE IF ps[i].user_id = user_id
         THEN <<ps[i]>> \o filtered_projects_from(ps, user_id, i + 1)
         ELSE filtered_projects_from(ps, user_id, i + 1)

filtered_projects(ps, user_id) == filtered_projects_from(ps, user_id, 1)

\* ---- requests and responses ----
Request(op, id, body) == [op |-> op, id |-> id, body |-> body]

NoRequest == Request("none", NoId, <<>>)

\* a handler returned v with status 200: one entity -> "object", a list -> "array"
Object(v) == [status |-> 200, kind |-> "object", body |-> <<v>>]

Array(vs) == [status |-> 200, kind |-> "array", body |-> vs]

\* raise HTTPException(status_code = s)
HTTPException(s) == [status |-> s, kind |-> "error", body |-> <<>>]

\* the handler returned None
Null(s) == [status |-> s, kind |-> "null", body |-> <<>>]

Init ==
    /\ users = <<>>
    /\ projects = <<>>
    /\ tasks = <<>>
    /\ nextId = 1
    /\ req = NoRequest
    /\ resp = Null(200)
    /\ wpc = [w \in Workers |-> "idle"]
    /\ widx = [w \in Workers |-> 0]
    /\ wreq = [w \in Workers |-> NoRequest]
    /\ wresp = [w \in Workers |-> Null(200)]

\* ---- handlers, one request at a time ----
\* GET /tasks?project_id=
fetch_tasks ==
    \E project_id \in ProjectIds \cup {NoId} :
        /\ req' = Request("fetch_tasks", project_id, <<>>)
        /\ resp' = IF project_id # NoId
                   THEN Array(tasks_filtered(tasks, project_id))
                   ELSE Array(tasks)
        /\ UNCHANGED <<repos, nextId, wvars>>

\* POST /tasks
create_new_task ==
    \E task_data \in TaskCreate(ProjectIds) :
        /\ req' = Request("create_new_task", NoId, <<task_data>>)
        /\ IF ~project_exists(task_data.project_id)
           THEN /\ resp' = HTTPException(400)
                /\ UNCHANGED <<tasks, nextId>>
           ELSE /\ Created < MaxId
                /\ LET added == add_task(tasks, task_data, nextId)
                   IN /\ tasks' = added.tasks
                      /\ resp' = Object(added.new_task)
                /\ nextId' = nextId + 1
        /\ UNCHANGED <<users, projects, wvars>>

\* GET /tasks/{task_id}
get_single_task_resp(ts, task_id) ==
    LET task == find_by_id(ts, task_id) IN
    IF task = <<>> THEN HTTPException(404) ELSE Object(task[1])

get_single_task ==
    \E task_id \in TaskIds :
        /\ req' = Request("get_single_task", task_id, <<>>)
        /\ resp' = get_single_task_resp(tasks, task_id)
        /\ UNCHANGED <<repos, nextId, wvars>>

\* PUT /tasks/{task_id}; the body is a whole Task, "id" included: the path
\* id again, or the id of any stored task.
\* status 0 stands for "fell off the end of the handler" (returns None).
update_result_id_first(ts, task_id, updated_task) ==
    LET result == modify_task(ts, task_id, updated_task) IN
    IF ~result.found THEN [status |-> 404, tasks |-> ts]
    ELSE IF ~project_exists(updated_task.project_id)
         THEN [status |-> 400, tasks |-> ts]
         ELSE [status |-> 0, tasks |-> result.tasks]

update_result(ts, task_id, updated_task) ==
    IF ~project_exists(updated_task.project_id)
    THEN [status |-> 400, tasks |-> ts]
    ELSE LET result == modify_task(ts, task_id, updated_task) IN
         IF ~result.found THEN [status |-> 404, tasks |-> result.tasks]
         ELSE [status |-> 0, tasks |-> result.tasks]

update_existing_task ==
    \E task_id \in TaskIds, data \in TaskCreate(ProjectIds) :
      \E body_id \in ids(tasks) \cup {task_id} :
        LET updated_task == Task(body_id, data)
            r == update_result(tasks, task_id, updated_task)
        IN  /\ req' = Request("update_existing_task", task_id, <<updated_task>>)
            /\ tasks' = r.tasks
            /\ IF r.status # 0
               THEN resp' = HTTPException(r.status)
               ELSE \E st \in NoneResponseStatus : resp' = Null(st)
            /\ UNCHANGED <<users, projects, nextId, wvars>>

\* DELETE /tasks/{task_id}
delete_existing_task ==
    \E task_id \in TaskIds :
        LET success == remove_task(tasks, task_id) IN
            /\ req' = Request("delete_existing_task", task_id, <<>>)
            /\ tasks' = success.tasks
            /\ resp' = IF ~success.found THEN HTTPException(404) ELSE Null(200)
            /\ UNCHANGED <<users, projects, nextId, wvars>>

\* GET /projects?user_id=
fetch_projects ==
    \E user_id \in UserIds \cup {NoId} :
        /\ req' = Request("fetch_projects", user_id, <<>>)
        /\ IF user_id # NoId
           THEN resp' = Array(filtered_projects(projects, user_id))
           ELSE \E st \in NoneResponseStatus : resp' = Null(st)
        /\ UNCHANGED <<repos, nextId, wvars>>

\* POST /projects
create_new_project ==
    \E project_data \in [name : Names, user_id : UserIds] :
        LET id == ProjectBase + Len(projects) + 1 IN
        /\ req' = Request("create_new_project", NoId, <<project_data>>)
        /\ IF ~user_exists(project_data.user_id)
           THEN /\ resp' = HTTPException(400)
                /\ UNCHANGED projects
           ELSE /\ Created < MaxId
                /\ LET created == create_project(projects, project_data, id)
                   IN /\ projects' = created.projects
                      /\ resp' = Object(created.project)
        /\ UNCHANGED <<users, tasks, nextId, wvars>>

\* GET /users
list_users ==
    /\ req' = Request("list_users", NoId, <<>>)
    /\ resp' = Array(users)
    /\ UNCHANGED <<repos, nextId, wvars>>

\* POST /users
add_user ==
    \E user_data \in [name : Names] :
        LET id == UserBase + Len(users) + 1 IN
        /\ Created < MaxId
        /\ req' = Request("add_user", NoId, <<user_data>>)
        /\ LET added == repo_add_user(users, user_data, id)
           IN /\ users' = added.users
              /\ resp' = Object(added.user)
        /\ UNCHANGED <<projects, tasks, nextId, wvars>>

Next ==
    \/ fetch_tasks
    \/ create_new_task
    \/ get_single_task
    \/ update_existing_task
    \/ delete_existing_task
    \/ fetch_projects
    \/ create_new_project
    \/ list_users
    \/ add_user

Spec == Init /\ [][Next]_vars

\* ---- two task requests handled concurrently ----
ConcUser == User(UserBase + 1, [name |-> "n"])

ConcProject == Project(ProjectBase + 1, [name |-> "n", user_id |-> ConcUser.id])

\* the collections after one add_user, one create_new_project and ConcTasks
\* create_new_task requests
ConcInitTasks ==
    [i \in 1 .. ConcTasks |->
        Task(i, [title |-> "A", description |-> NoneDesc, completed |-> FALSE,
                 project_id |-> ConcProject.id])]

ConcInit ==
    /\ users = <<ConcUser>>
    /\ projects = <<ConcProject>>
    /\ tasks = ConcInitTasks
    /\ nextId = ConcTasks + 1
    /\ req = NoRequest
    /\ resp = Null(200)
    /\ wpc = [w \in Workers |-> "idle"]
    /\ widx = [w \in Workers |-> 0]
    /\ wreq = [w \in Workers |-> NoRequest]
    /\ wresp = [w \in Workers |-> Null(200)]

\* DELETE /tasks/{task_id} enters remove_task
conc_delete_existing_task(w) ==
    \E task_id \in ids(ConcInitTasks) \cup {ForeignId} :
        /\ wpc[w] = "idle"
        /\ wreq' = [wreq EXCEPT ![w] = Request("delete_existing_task", task_id, <<>>)]
        /\ wpc' = [wpc EXCEPT ![w] = "scan"]
        /\ UNCHANGED <<repos, nextId, req, resp, wresp, widx>>

\* PUT /tasks/{task_id} checks the project and enters modify_task
conc_update_existing_task(w) ==
    \E task_id \in ids(ConcInitTasks) \cup {ForeignId}, data \in TaskCreate(ProjectIds) :
        LET updated_task == Task(task_id, data) IN
        /\ wpc[w] = "idle"
        /\ wreq' = [wreq EXCEPT ![w] =
                        Request("update_existing_task", task_id, <<updated_task>>)]
        /\ IF ~project_exists(updated_task.project_id)
           THEN /\ wresp' = [wresp EXCEPT ![w] = HTTPException(400)]
                /\ wpc' = [wpc EXCEPT ![w] = "done"]
           ELSE /\ wpc' = [wpc EXCEPT ![w] = "scan"]
                /\ UNCHANGED wresp
        /\ UNCHANGED <<repos, nextId, req, resp, widx>>

\* "for idx, task in enumerate(self._tasks): if task.id == task_id", taken
\* as one step: the scan for the matching index.  Every behaviour with this
\* grain is one of the program, whose threads may also switch inside the loop.
conc_scan(w) ==
    LET i == scan(tasks, wreq[w].id, 1) IN
    /\ wpc[w] = "scan"
    /\ widx' = [widx EXCEPT ![w] = i]
    /\ IF i = 0
       THEN /\ wresp' = [wresp EXCEPT ![w] = HTTPException(404)]
            /\ wpc' = [wpc EXCEPT ![w] = "done"]
       ELSE /\ wpc' = [wpc EXCEPT ![w] = "mutate"]
            /\ UNCHANGED wresp
    /\ UNCHANGED <<repos, nextId, req, resp, wreq>>

\* "del self._tasks[idx]" or "self._tasks[idx] = updated_task" with the index
\* the scan found; an index past the end raises IndexError (status 500)
conc_mutate(w) ==
    /\ wpc[w] = "mutate"
    /\ wpc' = [wpc EXCEPT ![w] = "done"]
    /\ IF widx[w] > Len(tasks)
       THEN /\ wresp' = [wresp EXCEPT ![w] = HTTPException(500)]
            /\ UNCHANGED tasks
       ELSE IF wreq[w].op = "delete_existing_task"
            THEN /\ tasks' = del(tasks, widx[w])
                 /\ wresp' = [wresp EXCEPT ![w] = Null(200)]
            ELSE /\ tasks' = [tasks EXCEPT ![widx[w]] = wreq[w].body[1]]
                 /\ \E st \in NoneResponseStatus :
                        wresp' = [wresp EXCEPT ![w] = Null(st)]
    /\ UNCHANGED <<users, projects, nextId, req, resp, wreq, widx>>

ConcNext ==
    \E w \in Workers :
        \/ conc_delete_existing_task(w)
        \/ conc_update_existing_task(w)
        \/ conc_scan(w)
        \/ conc_mutate(w)

ConcSpec == ConcInit /\ [][ConcNext]_vars

\* ---- properties ----
UniqueIds(rs) == \A i, j \in 1 .. Len(rs) : rs[i].id = rs[j].id => i = j

\* the k-th smallest element of a set of indices
kth(S, k) == CHOOSE i \in S : Cardinality({j \in S : j <= i}) = k

\* body is exactly the records of rs at the indices in S, in increasing order
IsSelection(body, rs, S) ==
    /\ Len(body) = Cardinality(S)
    /\ \A k \in 1 .. Len(body) : body[k] = rs[kth(S, k)]

\* C1: in every reachable state no two records of one collection share an
\* id, and an update-task leaves the id of every stored task as it was.
C1_IdsUniqueAndImmutable ==
    /\ [](UniqueIds(users) /\ UniqueIds(projects) /\ UniqueIds(tasks))
    /\ [][req'.op = "update_existing_task" =>
            /\ Len(tasks') = Len(tasks)
            /\ \A i \in 1 .. Len(tasks) : tasks'[i].id = tasks[i].id]_vars

\* C2: whenever a task with id X is stored, delete-task on X succeeds and a
\* get-task on X issued right after it answers 404.
C2_DeleteThenGetNotFound ==
    [][(req'.op = "delete_existing_task" /\ req'.id \in ids(tasks)) =>
        /\ resp'.status = 200
        /\ get_single_task_resp(tasks', req'.id).status = 404]_vars

\* C3: create-task with a payload whose project_id is stored succeeds, and a
\* get-task on the returned id right after it returns that id with the
\* payload's title, description, completed and project_id.
C3_CreateThenGet ==
    [][(req'.op = "create_new_task"
            /\ req'.body[1].project_id \in ids(projects)) =>
        /\ resp'.status = 200
        /\ resp'.kind = "object"
        /\ LET payload == req'.body[1]
               got == get_single_task_resp(tasks', resp'.body[1].id)
           IN /\ got.status = 200
              /\ got.kind = "object"
              /\ got.body[1].id = resp'.body[1].id
              /\ got.body[1].title = payload.title
              /\ got.body[1].description = payload.description
              /\ got.body[1].completed = payload.completed
              /\ got.body[1].project_id = payload.project_id]_vars

C3_Witness ==
    /\ req.op = "create_new_task"
    /\ resp.status = 200
    /\ req.body[1].completed
    /\ Len(tasks) >= 2
    /\ get_single_task_resp(tasks, resp.body[1].id).status = 200

\* C4: create-task with a project_id that no stored project has answers 400
\* and leaves the task collection as it was.
C4_CreateTaskInvalidReference ==
    [][(req'.op = "create_new_task"
            /\ req'.body[1].project_id \notin ids(projects)) =>
        /\ resp'.status = 400
        /\ resp'.kind = "error"
        /\ tasks' = tasks]_vars

C4_Witness ==
    /\ req.op = "create_new_task"
    /\ resp.status = 400
    /\ Len(projects) >= 1
    /\ Len(tasks) >= 1

\* C5: list-tasks with filter project_id = X returns exactly the stored tasks
\* whose project_id is X, each once, in the order of the task collection, and
\* changes no collection.
C5_FilteredTasks ==
    [][(req'.op = "fetch_tasks" /\ req'.id # NoId) =>
        /\ resp'.status = 200
        /\ resp'.kind = "array"
        /\ IsSelection(resp'.body, tasks,
                       {i \in 1 .. Len(tasks) : tasks[i].project_id = req'.id})
        /\ repos' = repos]_vars

C5_Witness ==
    /\ req.op = "fetch_tasks"
    /\ req.id # NoId
    /\ Len(resp.body) >= 1
    /\ Len(tasks) > Len(resp.body)

\* C6: create-project with a user_id that no stored user has answers 400 and
\* leaves the project collection as it was.
C6_CreateProjectInvalidReference ==
    [][(req'.op = "create_new_project"
            /\ req'.body[1].user_id \notin ids(users)) =>
        /\ resp'.status = 400
        /\ resp'.kind = "error"
        /\ projects' = projects]_vars

C6_Witness ==
    /\ req.op = "create_new_project"
    /\ resp.status = 400
    /\ Len(users) >= 1
    /\ Len(projects) >= 1

\* C7: in every reachable state every stored task's project_id is the id of
\* a stored project and every stored project's user_id is the id of a stored
\* user.
C7_ReferentialIntegrity ==
    /\ \A i \in 1 .. Len(tasks) : tasks[i].project_id \in ids(projects)
    /\ \A i \in 1 .. Len(projects) : projects[i].user_id \in ids(users)

C7_Witness ==
    /\ req.op = "update_existing_task"
    /\ resp.kind = "null"
    /\ Len(projects) >= 2
    /\ \E i \in 1 .. Len(tasks) : tasks[i].project_id = projects[2].id

\* C8: list-projects returns all stored projects in insertion order when no
\* user_id is given, and exactly the projects of that user when one is.
C8_ListProjects ==
    req.op = "fetch_projects" =>
        /\ resp.status = 200
        /\ resp.kind = "array"
        /\ IF req.id = NoId
           THEN resp.body = projects
           ELSE IsSelection(resp.body, projects,
                    {i \in 1 .. Len(projects) : projects[i].user_id = req.id})

\* C9: update-task answers 400 when the body's project_id is not stored,
\* whether or not the path id is; otherwise 404 when the path id is not
\* stored; either failure leaves the three collections as they were.
C9_UpdateFailures ==
    [][req'.op = "update_existing_task" =>
        LET body == req'.body[1] IN
        /\ body.project_id \notin ids(projects) =>
              (resp'.status = 400 /\ resp'.kind = "error" /\ repos' = repos)
        /\ (body.project_id \in ids(projects) /\ req'.id \notin ids(tasks)) =>
              (resp'.status = 404 /\ resp'.kind = "error" /\ repos' = repos)]_vars

C9_Witness ==
    /\ req.op = "update_existing_task"
    /\ resp.status = 400
    /\ req.id \in ids(tasks)
    /\ Len(projects) >= 1

\* the collection after the requests of rs are handled one after the other
RECURSIVE Serial(_, _)
Serial(ts, rs) ==
    IF rs = <<>> THEN ts
    ELSE LET r == Head(rs)
             after == IF r.op = "delete_existing_task"
                      THEN remove_task(ts, r.id).tasks
                      ELSE update_result(ts, r.id, r.body[1]).tasks
         IN Serial(after, Tail(rs))

\* C10: a delete-task on a stored X handled concurrently with a delete-task
\* or update-task on another stored Y leaves the task collection as one of
\* the two sequential orders would, and neither request fails.
C10_Serializable ==
    \A w1, w2 \in Workers :
        (/\ w1 # w2
         /\ wpc[w1] = "done" /\ wpc[w2] = "done"
         /\ wreq[w1].op = "delete_existing_task"
         /\ wreq[w1].id \in ids(ConcInitTasks)
         /\ wreq[w2].id \in ids(ConcInitTasks)
         /\ wreq[w1].id # wreq[w2].id
         /\ wreq[w2].op = "update_existing_task" =>
                wreq[w2].body[1].project_id \in ids(projects))
        => /\ tasks \in {Serial(ConcInitTasks, <<wreq[w1], wreq[w2]>>),
                         Serial(ConcInitTasks, <<wreq[w2], wreq[w1]>>)}
           /\ wresp[w1].kind = "null"
           /\ wresp[w2].kind = "null"

====
